---- MODULE Spec2Model ----
(***************************************************************************)
(* A model of PythonApplication3.py, the Streamlit "Multi-Disease Data     *)
(* Analyzer": the diabetes CSV loader (column detection, coercion, Date     *)
(* derivation), the sidebar's country-text parsing, and the Analyze pass    *)
(* (filter, yearly aggregation, summary table).                             *)
(*                                                                          *)
(* Text is modelled by TLA+ strings; TLC evaluates Len, Head, Tail, SubSeq  *)
(* and \o on them, so str.strip, str.lower, str.title, str.split and the    *)
(* numeric parsers are computed character by character.                     *)
(* Numbers are kept in tenths (9.5 is 95, 2020 is 20200), which is exact    *)
(* for the CSV fields the model draws: integers and one-decimal numbers.    *)
(***************************************************************************)
EXTENDS Integers, Sequences, FiniteSets, TLC

VARIABLES
    raw,        \* the diabetes CSV as served at DIABETES_URL: header line and columns of fields
    loaded,     \* result of load_diabetes_data() on raw ("none" until it ran)
    again,      \* result of the normalization steps applied to loaded's table ("none" until applied)
    variant,    \* result of load_diabetes_data() on raw under other accepted header names
    covid,      \* result of load_covid_data() ("none" until it ran)
    flu,        \* result of load_flu_data() ("none" until it ran)
    disease,    \* the "Select Disease" selectbox
    user_input, \* the country text input
    selected_countries, \* the "Selected Countries" multiselect
    selected_year,      \* the "Select Year" selectbox
    run         \* what the last script run did and rendered

loadVars == <<raw, loaded, again, variant>>
appVars == <<covid, flu, disease, user_input, selected_countries, selected_year, run>>
vars == <<raw, loaded, again, variant,
          covid, flu, disease, user_input, selected_countries, selected_year, run>>

-----------------------------------------------------------------------------
(* Characters and strings *)

UpperLetters == "ABCDEFGHIJKLMNOPQRSTUVWXYZ"
LowerLetters == "abcdefghijklmnopqrstuvwxyz"
Digits == "0123456789"
\* the characters the model's texts use, in code-point order (for sorted())
AsciiOrder == " %().," \o Digits \o UpperLetters \o "_" \o LowerLetters

CharAt(s, i) == SubSeq(s, i, i)

IndexIn(c, alphabet) ==
    IF \E i \in 1..Len(alphabet) : CharAt(alphabet, i) = c
    THEN CHOOSE i \in 1..Len(alphabet) : CharAt(alphabet, i) = c
    ELSE 0

CharSet(alphabet) == {CharAt(alphabet, i) : i \in 1..Len(alphabet)}

\* the case mappings and code-point ranks, tabulated once
ToLower == [c \in CharSet(UpperLetters) |-> CharAt(LowerLetters, IndexIn(c, UpperLetters))]
ToUpper == [c \in CharSet(LowerLetters) |-> CharAt(UpperLetters, IndexIn(c, LowerLetters))]
DigitValue == [c \in CharSet(Digits) |-> IndexIn(c, Digits) - 1]
Ord == [c \in CharSet(AsciiOrder) |-> IndexIn(c, AsciiOrder)]

IsUpperChar(c) == c \in DOMAIN ToLower
IsLowerChar(c) == c \in DOMAIN ToUpper
IsAlphaChar(c) == IsUpperChar(c) \/ IsLowerChar(c)
IsDigitChar(c) == c \in DOMAIN DigitValue

LowerChar(c) == IF IsUpperChar(c) THEN ToLower[c] ELSE c
UpperChar(c) == IF IsLowerChar(c) THEN ToUpper[c] ELSE c

RECURSIVE MapChars(_, _)
\* kind "lower" is str.lower(), kind "upper" is str.upper()
MapChars(s, kind) ==
    IF s = "" THEN ""
    ELSE (IF kind = "lower" THEN LowerChar(Head(s)) ELSE UpperChar(Head(s)))
         \o MapChars(Tail(s), kind)

lower(s) == MapChars(s, "lower")
upper(s) == MapChars(s, "upper")

RECURSIVE LStrip(_)
LStrip(s) == IF s # "" /\ Head(s) = " " THEN LStrip(Tail(s)) ELSE s

RECURSIVE RStrip(_)
RStrip(s) ==
    IF s # "" /\ CharAt(s, Len(s)) = " " THEN RStrip(SubSeq(s, 1, Len(s) - 1)) ELSE s

\* a strip that removes at most one blank on each side
StripOnce(s) ==
    LET a == IF s # "" /\ Head(s) = " " THEN Tail(s) ELSE s
    IN  IF a # "" /\ CharAt(a, Len(a)) = " " THEN SubSeq(a, 1, Len(a) - 1) ELSE a

strip(s) == RStrip(LStrip(s))

RECURSIVE RemoveChar(_, _)
\* str.replace(c, "")
RemoveChar(s, c) ==
    IF s = "" THEN ""
    ELSE (IF Head(s) = c THEN "" ELSE Head(s)) \o RemoveChar(Tail(s), c)

RECURSIVE TitleFrom(_, _)
\* str.title(): a letter is upper-cased after a non-letter, lower-cased after a letter
TitleFrom(s, prevAlpha) ==
    IF s = "" THEN ""
    ELSE (IF prevAlpha THEN LowerChar(Head(s)) ELSE UpperChar(Head(s)))
         \o TitleFrom(Tail(s), IsAlphaChar(Head(s)))

title(s) == TitleFrom(s, FALSE)

RECURSIVE SplitFrom(_, _, _)
\* str.split(sep): the pieces between separators, empty pieces included
SplitFrom(s, sep, cur) ==
    IF s = "" THEN <<cur>>
    ELSE IF Head(s) = sep THEN <<cur>> \o SplitFrom(Tail(s), sep, "")
    ELSE SplitFrom(Tail(s), sep, cur \o Head(s))

split(s, sep) == SplitFrom(s, sep, "")

RECURSIVE StrLess(_, _)
\* Python's < on str: lexicographic by code point
StrLess(a, b) ==
    IF b = "" THEN FALSE
    ELSE IF a = "" THEN TRUE
    ELSE IF Head(a) = Head(b) THEN StrLess(Tail(a), Tail(b))
    ELSE Ord[Head(a)] < Ord[Head(b)]

RECURSIVE IsDigits(_)
IsDigits(s) == s # "" /\ IsDigitChar(Head(s)) /\ (Tail(s) = "" \/ IsDigits(Tail(s)))

RECURSIVE StrToNat(_, _)
StrToNat(s, acc) ==
    IF s = "" THEN acc ELSE StrToNat(Tail(s), 10 * acc + DigitValue[Head(s)])

RECURSIVE NatToStr(_)
\* str(n) of a non-negative int
NatToStr(n) ==
    IF n < 10 THEN CharAt(Digits, n + 1)
    ELSE NatToStr(n \div 10) \o CharAt(Digits, (n % 10) + 1)

\* An integer text ("2020") or a one-decimal text ("9.5")
IsIntText(s) == IsDigits(s)
IsFloatText(s) ==
    /\ Len(s) >= 3
    /\ CharAt(s, Len(s) - 1) = "."
    /\ IsDigits(SubSeq(s, 1, Len(s) - 2))
    /\ IsDigitChar(CharAt(s, Len(s)))
IsNumText(s) == IsIntText(s) \/ IsFloatText(s)

\* the number a numeric text denotes, in tenths
ParseTenths(s) ==
    IF IsIntText(s) THEN 10 * StrToNat(s, 0)
    ELSE 10 * StrToNat(SubSeq(s, 1, Len(s) - 2), 0) + StrToNat(CharAt(s, Len(s)), 0)

-----------------------------------------------------------------------------
(* Cells of a DataFrame *)

NaN == [k |-> "nan", n |-> 0, s |-> ""]
Num(t) == [k |-> "num", n |-> t, s |-> ""]     \* t in tenths
Str(x) == [k |-> "str", n |-> 0, s |-> x]
NaT == [k |-> "nat", n |-> 0, s |-> ""]
Timestamp(y, m, d) == [k |-> "date", n |-> (y * 100 + m) * 100 + d, s |-> ""]

notna(c) == c.k \notin {"nan", "nat"}

-----------------------------------------------------------------------------
(* pandas: Series and DataFrame. A DataFrame is kept column-major:          *)
(* columns is the header line, data[j] the Series under columns[j].         *)

Series(dtype, cells) == [dtype |-> dtype, v |-> cells]

\* pd.read_csv's type inference for one column of CSV fields; "" is a missing field
ReadColumn(fs) ==
    LET n == Len(fs)
        allNum == \A i \in 1..n : fs[i] = "" \/ IsNumText(fs[i])
        allInt == \A i \in 1..n : IsIntText(fs[i])
    IN  IF n > 0 /\ allNum
        THEN Series(IF allInt THEN "int64" ELSE "float64",
                    [i \in 1..n |-> IF fs[i] = "" THEN NaN ELSE Num(ParseTenths(fs[i]))])
        ELSE Series("object", [i \in 1..n |-> IF fs[i] = "" THEN NaN ELSE Str(fs[i])])

read_csv(csv) ==
    [columns |-> csv.header,
     data |-> [j \in 1..Len(csv.header) |-> ReadColumn(csv.fields[j])]]

NRows(df) == IF Len(df.data) = 0 THEN 0 ELSE Len(df.data[1].v)

\* the positions of the columns named name
Positions(df, name) == {j \in 1..Len(df.columns) : df.columns[j] = name}
HasColumn(df, name) == Positions(df, name) # {}
\* df[name] is a Series only when exactly one column bears the name
IsSeries(df, name) == Cardinality(Positions(df, name)) = 1
Col(df, name) == df.data[CHOOSE j \in Positions(df, name) : TRUE]

\* str(x) of a cell, as Series.astype(str) renders it under the Series' dtype
CellToStr(dtype, c) ==
    IF c.k = "str" THEN c.s
    ELSE IF c.k = "nan" THEN "nan"
    ELSE IF c.k = "nat" THEN "NaT"
    ELSE IF c.k = "date"
         THEN NatToStr(c.n \div 10000) \o "-" \o
              (IF (c.n \div 100) % 100 < 10 THEN "0" ELSE "") \o NatToStr((c.n \div 100) % 100)
              \o "-" \o (IF c.n % 100 < 10 THEN "0" ELSE "") \o NatToStr(c.n % 100)
    ELSE IF dtype = "int64" THEN NatToStr(c.n \div 10)
    ELSE NatToStr(c.n \div 10) \o "." \o NatToStr(c.n % 10)

astype_str(ser) ==
    Series("object", [i \in 1..Len(ser.v) |-> Str(CellToStr(ser.dtype, ser.v[i]))])

str_strip(ser) ==
    Series("object", [i \in 1..Len(ser.v) |->
                        IF ser.v[i].k = "str" THEN Str(strip(ser.v[i].s)) ELSE ser.v[i]])

\* pd.to_numeric(ser, errors="coerce")
to_numeric(ser) ==
    IF ser.dtype \in {"int64", "float64"} THEN ser
    ELSE LET cells == [i \in 1..Len(ser.v) |->
                         IF ser.v[i].k = "str" /\ IsNumText(ser.v[i].s)
                         THEN Num(ParseTenths(ser.v[i].s))
                         ELSE IF ser.v[i].k = "num" THEN ser.v[i] ELSE NaN]
             allInt == \A i \in 1..Len(cells) : cells[i].k = "num" /\ cells[i].n % 10 = 0
         IN  Series(IF allInt /\ Len(cells) > 0 THEN "int64" ELSE "float64", cells)

fillna0(ser) ==
    Series(ser.dtype, [i \in 1..Len(ser.v) |-> IF ser.v[i].k = "nan" THEN Num(0) ELSE ser.v[i]])

\* Series.astype(int) of a numeric Series without NaN: truncation toward zero
astype_int(ser) ==
    Series("int64", [i \in 1..Len(ser.v) |-> Num((ser.v[i].n \div 10) * 10)])

\* the bounds of datetime64[ns]: 1677-09-21 .. 2262-04-11
TimestampMinYear == 1678
TimestampMaxYear == 2262

\* pd.to_datetime(text, errors="coerce") of a text "<year>-<mm>-<dd>": a Timestamp when
\* the year has four digits and the date lies within datetime64[ns], NaT otherwise.
\* (How pandas reads a year of fewer than four digits depends on its version; the files
\* of this model hold none.)
to_datetime(text) ==
    LET n == Len(text)
        ytxt == IF n > 6 THEN SubSeq(text, 1, n - 6) ELSE ""
        mtxt == IF n > 6 THEN SubSeq(text, n - 4, n - 3) ELSE ""
        dtxt == IF n > 6 THEN SubSeq(text, n - 1, n) ELSE ""
        y == StrToNat(ytxt, 0)
        m == StrToNat(mtxt, 0)
        d == StrToNat(dtxt, 0)
    IN  IF /\ n > 6 /\ CharAt(text, n - 5) = "-" /\ CharAt(text, n - 2) = "-"
           /\ Len(ytxt) = 4 /\ IsDigits(ytxt) /\ IsDigits(mtxt) /\ IsDigits(dtxt)
           /\ m \in 1..12 /\ d \in 1..31
           /\ y >= TimestampMinYear
           /\ (y < TimestampMaxYear \/ (y = TimestampMaxYear /\ m * 100 + d <= 411))
        THEN Timestamp(y, m, d)
        ELSE NaT

\* Series.dt.year of one cell
YearOf(c) == c.n \div 10000

\* pd.to_datetime(ser, errors="coerce") / read_csv(parse_dates=...) of a column of texts
to_datetime_series(ser) ==
    Series("datetime64", [i \in 1..Len(ser.v) |->
                            IF ser.v[i].k = "str" THEN to_datetime(ser.v[i].s)
                            ELSE IF ser.v[i].k = "date" THEN ser.v[i] ELSE NaT])

\* df with the Series under name replaced, or appended when no column bears the name
Assign(df, name, ser) ==
    IF HasColumn(df, name)
    THEN [df EXCEPT !.data = [j \in 1..Len(df.data) |->
                                IF df.columns[j] = name THEN ser ELSE df.data[j]]]
    ELSE [columns |-> Append(df.columns, name), data |-> Append(df.data, ser)]

\* the rows of df, in order, whose cells under every column of subset are not missing
dropna(df, subset) ==
    LET n == NRows(df)
        Keep(i) == \A name \in subset : notna(Col(df, name).v[i])
        idx == SelectSeq([i \in 1..n |-> i], Keep)
    IN  [df EXCEPT !.data = [j \in 1..Len(df.data) |->
            Series(df.data[j].dtype, [r \in 1..Len(idx) |-> df.data[j].v[idx[r]]])]]

\* the elements of S listed once each, in some order
Listed(S) ==
    CHOOSE q \in [1..Cardinality(S) -> S] : {q[i] : i \in 1..Cardinality(S)} = S

NumLess(a, b) == a < b

\* sorted(ser.unique()) of texts and of numbers
SortedStrs(S) == SortSeq(Listed(S), StrLess)
SortedNums(S) == SortSeq(Listed(S), NumLess)

-----------------------------------------------------------------------------
(* load_diabetes_data *)

CountryNames == {"country", "entity", "location", "country_name"}
YearNames == {"year", "time"}
ValueNames == {"value", "prevalence", "diabetes", "diabetes_prevalence",
               "diabetes prevalence", "diabetes prevalence (%)", "sh.sta.diab.zs"}

\* whether some name of names occurs in text as a substring
ContainsAny(text, names) ==
    \E w \in names : \E i \in 1..Len(text) :
        i + Len(w) - 1 <= Len(text) /\ SubSeq(text, i, i + Len(w) - 1) = w

\* a renaming that also accepts a header containing a candidate name
RenameBySubstring(c) ==
    LET lc == strip(lower(c))
    IN  IF ContainsAny(lc, CountryNames) THEN "Country"
        ELSE IF ContainsAny(lc, YearNames) THEN "Year"
        ELSE IF ContainsAny(lc, ValueNames) THEN "Value"
        ELSE c

\* a renaming that compares the header as written, without lower-casing it
RenameCaseSensitive(c) ==
    LET lc == strip(c)
    IN  IF lc \in CountryNames THEN "Country"
        ELSE IF lc \in YearNames THEN "Year"
        ELSE IF lc \in ValueNames THEN "Value"
        ELSE c

\* rename_map[c] of a (stripped) header c, or c itself when rename_map has no key c
RenameTarget(c) ==
    LET lc == strip(lower(c))
    IN  IF lc \in CountryNames THEN "Country"
        ELSE IF lc \in YearNames THEN "Year"
        ELSE IF lc \in ValueNames THEN "Value"
        ELSE c

\* lines 67-79: headers stripped, then renamed through rename_map
RenameColumns(df) ==
    [df EXCEPT !.columns = [j \in 1..Len(df.columns) |-> RenameTarget(strip(df.columns[j]))]]

\* s.notna().mean() > 0.5 of the coerced column
MostlyNumeric(ser) ==
    LET s == to_numeric(ser)
    IN  2 * Cardinality({i \in 1..Len(s.v) : notna(s.v[i])}) > Len(s.v)

\* the positions the loop of lines 84-89 visits: every column not named Country or Year
FallbackScan(df) == {j \in 1..Len(df.columns) : df.columns[j] \notin {"Country", "Year"}}

\* pd.to_numeric(df[c]) raises when df[c] is not a Series (two columns named c)
FallbackRaises(df) ==
    ~HasColumn(df, "Value") /\ \E j \in FallbackScan(df) : ~IsSeries(df, df.columns[j])

\* the position of numeric_candidates[0], or 0 when numeric_candidates is empty
FirstNumericCandidate(df) ==
    LET cand == {j \in FallbackScan(df) : MostlyNumeric(df.data[j])}
    IN  IF cand = {} THEN 0 ELSE CHOOSE j \in cand : \A i \in cand : j <= i

\* lines 82-91
RenameFallback(df) ==
    IF HasColumn(df, "Value") \/ FirstNumericCandidate(df) = 0 THEN df
    ELSE [df EXCEPT !.columns[FirstNumericCandidate(df)] = "Value"]

\* a check that lets a table without a Value column through
MustHaveCountryYear(df) == HasColumn(df, "Country") /\ HasColumn(df, "Year")

\* a check that lets a table without a Year column through
MustHaveCountryValue(df) == HasColumn(df, "Country") /\ HasColumn(df, "Value")

\* line 94
MustHave(df) == HasColumn(df, "Country") /\ HasColumn(df, "Year") /\ HasColumn(df, "Value")

\* lines 98-107 raise when Country, Year or Value names two columns
CoerceRaises(df) == \E name \in {"Country", "Year", "Value"} : ~IsSeries(df, name)

\* line 106: the Date Series of a Year Series
DateOfYear(ser) ==
    Series("datetime64",
           [i \in 1..Len(ser.v) |-> to_datetime(CellToStr("int64", ser.v[i]) \o "-01-01")])

\* a Country coercion that strips one blank only
CoerceCountryOnce(ser) ==
    Series("object", [i \in 1..Len(ser.v) |-> Str(StripOnce(CellToStr(ser.dtype, ser.v[i])))])

\* line 98
CoerceCountry(ser) == str_strip(astype_str(ser))

\* line 98
CountryCoerced(df) == Assign(df, "Country", CoerceCountry(Col(df, "Country")))
\* line 99
YearCoerced(df) == Assign(df, "Year", to_numeric(Col(df, "Year")))
\* line 100
ValueCoerced(df) == Assign(df, "Value", fillna0(to_numeric(Col(df, "Value"))))
\* line 102
MissingDropped(df) == dropna(df, {"Country", "Year"})
\* line 103
YearAsInt(df) == Assign(df, "Year", astype_int(Col(df, "Year")))
\* line 106
DateAdded(df) == Assign(df, "Date", DateOfYear(Col(df, "Year")))
\* line 107
UndatedDropped(df) == dropna(df, {"Date"})

\* lines 98-107
Coerce(df) ==
    UndatedDropped(DateAdded(YearAsInt(MissingDropped(
        ValueCoerced(YearCoerced(CountryCoerced(df)))))))

Uniques(ser) == {ser.v[i] : i \in 1..Len(ser.v)}

NoTable == [columns |-> <<>>, data |-> <<>>]

\* st.error + st.stop ("error") or an uncaught pandas exception ("raised")
Failed(status) == [status |-> status, df |-> NoTable, countries |-> <<>>, years |-> <<>>]

\* lines 109-111
Returned(df) ==
    [status |-> "ok", df |-> df,
     countries |-> SortedStrs({c.s : c \in Uniques(Col(df, "Country"))}),
     years |-> SortedNums({c.n \div 10 : c \in Uniques(Col(df, "Year"))})]

\* lines 93-111 on the renamed table
CheckedAndCoerced(df) ==
    IF ~MustHave(df) THEN Failed("error")
    ELSE IF CoerceRaises(df) THEN Failed("raised")
    ELSE Returned(Coerce(df))

\* lines 81-111 on the table renamed by name
FallbackAndRest(df) ==
    IF FallbackRaises(df) THEN Failed("raised") ELSE CheckedAndCoerced(RenameFallback(df))

\* lines 67-111 on the DataFrame read from the CSV
Normalize(df0) == FallbackAndRest(RenameColumns(df0))

load_diabetes_data(csv) == Normalize(read_csv(csv))

NotRun == [status |-> "none", df |-> NoTable, countries |-> <<>>, years |-> <<>>]

-----------------------------------------------------------------------------
(* The CSV files the loader is run on *)

MaxCols == 3    \* columns of a CSV whose header line is varied
MaxRows == 2    \* rows of a CSV whose fields are varied

HeaderPool == {"Country", " ENTITY ", "Year", "country_code", "2019", "2020", "Prevalence"}
\* an all-numeric column (its second year is out of range) and a half-numeric one
ColumnPool == {<<"2019", "20205">>, <<"Chile", "2021">>}

\* header lines of distinct headers over columns drawn from ColumnPool
HeaderTables ==
    UNION {{[header |-> h, fields |-> f] :
               h \in {g \in [1..n -> HeaderPool] : \A i, j \in 1..n : g[i] = g[j] => i = j},
               f \in [1..n -> ColumnPool]} : n \in 1..MaxCols}

RowHeaders == {<<"Entity", "Time", "Prevalence">>, <<"Country", "Year", "Rate">>}
CountryFields == {" Peru ", "   ", ""}
YearFields == {"2020", "2019.5", "abc"}
ValueFields == {"9.5", "abc"}

\* long-format files: one (country, year, value) line per row, fields varied
RowTables ==
    UNION {{[header |-> h,
             fields |-> <<[i \in 1..n |-> r[i][1]], [i \in 1..n |-> r[i][2]],
                          [i \in 1..n |-> r[i][3]]>>] :
               h \in RowHeaders,
               r \in [1..n -> CountryFields \X YearFields \X ValueFields]} : n \in 0..MaxRows}

\* the field a raw header is recognised as by name, or "" when by none
FieldOf(h) ==
    LET lc == lower(strip(h))
    IN  IF lc \in CountryNames THEN "Country"
        ELSE IF lc \in YearNames THEN "Year"
        ELSE IF lc \in ValueNames THEN "Value"
        ELSE ""

\* Country, Year and Value are each recognised by name in exactly one header
LongFormat(csv) ==
    \A fld \in {"Country", "Year", "Value"} :
        Cardinality({j \in 1..Len(csv.header) : FieldOf(csv.header[j]) = fld}) = 1

\* accepted spellings of the three headers
Spellings ==
    {[Country |-> "Country", Year |-> "Year", Value |-> "Value"],
     [Country |-> "ENTITY", Year |-> "Time ", Value |-> "sh.sta.diab.zs"],
     [Country |-> "entity", Year |-> "time", Value |-> "prevalence"],
     [Country |-> " location", Year |-> "year", Value |-> "Diabetes Prevalence (%)"]}

\* csv with every recognised header respelled
Respell(csv, sp) ==
    [csv EXCEPT !.header = [j \in 1..Len(csv.header) |->
        LET fld == FieldOf(csv.header[j])
        IN  IF fld = "Country" THEN sp.Country
            ELSE IF fld = "Year" THEN sp.Year
            ELSE IF fld = "Value" THEN sp.Value
            ELSE csv.header[j]]]

\* the Country/Year/Value/Date columns of a load's result
Projected(res) ==
    [status |-> res.status,
     cols |-> IF res.status = "ok"
              THEN [name \in {"Country", "Year", "Value", "Date"} |-> Col(res.df, name)]
              ELSE <<>>]

NoProjection == [status |-> "none", cols |-> <<>>]

\* no script run yet: the widgets at their defaults
NoRun ==
    [analyze_button |-> FALSE, loads |-> {}, processed_input |-> FALSE,
     processed_countries |-> {}, outcome |-> "none", years |-> {},
     yearly |-> <<>>, comparison |-> <<>>, summary |-> {}]

AppClosed ==
    /\ covid = NotRun
    /\ flu = NotRun
    /\ disease = "COVID-19"
    /\ user_input = ""
    /\ selected_countries = {}
    /\ selected_year = "All Years"
    /\ run = NoRun

InitLoad ==
    /\ raw \in HeaderTables \cup RowTables
    /\ loaded = NotRun
    /\ again = NotRun
    /\ variant = NoProjection
    /\ AppClosed

\* line 115: the (cached) call of load_diabetes_data
LoadDiabetes ==
    /\ loaded.status = "none"
    /\ loaded' = load_diabetes_data(raw)
    /\ UNCHANGED <<raw, again, variant>>
    /\ UNCHANGED appVars

\* lines 67-111 applied to the table a load returned
Renormalize ==
    /\ loaded.status = "ok"
    /\ again.status = "none"
    /\ again' = Normalize(loaded.df)
    /\ UNCHANGED <<raw, loaded, variant>>
    /\ UNCHANGED appVars

\* load_diabetes_data on the same file served under other accepted header names
LoadVariant ==
    /\ loaded.status # "none"
    /\ variant.status = "none"
    /\ LongFormat(raw)
    /\ \E sp \in Spellings : variant' = Projected(load_diabetes_data(Respell(raw, sp)))
    /\ UNCHANGED <<raw, loaded, again>>
    /\ UNCHANGED appVars

NextLoad == LoadDiabetes \/ Renormalize \/ LoadVariant

SpecLoad == InitLoad /\ [][NextLoad]_vars

-----------------------------------------------------------------------------
(* Properties of load_diabetes_data *)

Fields == {"Country", "Year", "Value"}
NamesOf(fld) == IF fld = "Country" THEN CountryNames
                ELSE IF fld = "Year" THEN YearNames ELSE ValueNames

Min(S) == CHOOSE j \in S : \A i \in S : j <= i

\* the headers of csv that equal a candidate name of fld, ignoring case and outer blanks
ExactMatches(csv, fld) ==
    {j \in 1..Len(csv.header) : lower(strip(csv.header[j])) \in NamesOf(fld)}

\* the headers of csv that contain a candidate name of fld
SubstringMatches(csv, fld) ==
    {j \in 1..Len(csv.header) : ContainsAny(lower(csv.header[j]), NamesOf(fld))}

\* more than half of the fields of column j are numbers
NumericShare(csv, j) ==
    2 * Cardinality({i \in 1..Len(csv.fields[j]) : IsNumText(csv.fields[j][i])})
        > Len(csv.fields[j])

\* the columns of csv, outside exclude, that are more than half numeric
NumericColumns(csv, exclude) ==
    {j \in 1..Len(csv.header) : j \notin exclude /\ NumericShare(csv, j)}

\* the column the exact rule, else the substring rule, assigns to fld (leftmost wins)
RuleChosenByName(csv, fld) ==
    IF ExactMatches(csv, fld) # {} THEN Min(ExactMatches(csv, fld))
    ELSE IF SubstringMatches(csv, fld) # {} THEN Min(SubstringMatches(csv, fld))
    ELSE 0

\* the column the three-rule detector (exact, else substring, else numeric for Value;
\* leftmost wins) assigns to fld, 0 when it assigns none
RuleChosen(csv, fld) ==
    LET assigned == {RuleChosenByName(csv, "Country"), RuleChosenByName(csv, "Year")}
    IN  IF RuleChosenByName(csv, fld) # 0 THEN RuleChosenByName(csv, fld)
        ELSE IF fld = "Value" /\ NumericColumns(csv, assigned) # {}
             THEN Min(NumericColumns(csv, assigned))
        ELSE 0

\* the columns the exact-name rule and, for Value alone, the numeric fallback assign to fld
NamedOrNumeric(csv, fld) ==
    IF ExactMatches(csv, fld) # {} \/ fld # "Value" THEN ExactMatches(csv, fld)
    ELSE LET cand == NumericColumns(csv, ExactMatches(csv, "Country")
                                         \cup ExactMatches(csv, "Year"))
         IN  IF cand = {} THEN {} ELSE {Min(cand)}

C2_ErrorOnlyForCountryOrYear ==
    loaded.status # "none" =>
        /\ loaded.status = "error" <=>
              (NamedOrNumeric(raw, "Country") = {} \/ NamedOrNumeric(raw, "Year") = {})
        /\ (/\ Cardinality(NamedOrNumeric(raw, "Country")) = 1
            /\ Cardinality(NamedOrNumeric(raw, "Year")) = 1
            /\ NamedOrNumeric(raw, "Value") = {})
              => /\ loaded.status = "ok"
                 /\ \A i \in 1..NRows(loaded.df) : Col(loaded.df, "Value").v[i] = Num(0)

\* C2 as amended: the load ends in the error state exactly when no column qualifies as
\* Country, as Year or as Value (by name, or for Value by the numeric fallback); a
\* missing Value column is an error too, and never defaults to 0.
C2_ErrorWhenAnyFieldMissing ==
    loaded.status # "none" =>
        (loaded.status = "error" <=> \E fld \in Fields : NamedOrNumeric(raw, fld) = {})

\* a load that ended in the error state on a file with a Country and a Year column
C2_Witness ==
    /\ loaded.status = "error"
    /\ Cardinality(NamedOrNumeric(raw, "Country")) = 1
    /\ Cardinality(NamedOrNumeric(raw, "Year")) = 1
    /\ NamedOrNumeric(raw, "Value") = {}

\* a header that reads as a four-digit year
IsYearHeader(h) == Len(strip(h)) = 4 /\ IsDigits(strip(h))
YearHeaders(csv) == {j \in 1..Len(csv.header) : IsYearHeader(csv.header[j])}

\* one row per country, one column per year: a Country header, at least two year
\* headers, and no Year header
Wide(csv) ==
    /\ Cardinality(ExactMatches(csv, "Country")) = 1
    /\ Cardinality(YearHeaders(csv)) >= 2
    /\ ExactMatches(csv, "Year") = {}

\* C3 as claimed: a wide table loads into (countries x year columns) long rows.
C3_WideReshaped ==
    (loaded.status # "none" /\ Wide(raw)) =>
        /\ loaded.status = "ok"
        /\ NRows(loaded.df) = Len(raw.fields[1]) * Cardinality(YearHeaders(raw))

\* C3 as amended: the loader does not reshape; a wide table (a Country header, year
\* headers, no Year header) ends in the error state and no table is returned.
C3_WideRejected ==
    (loaded.status # "none" /\ Wide(raw)) => (loaded.status = "error" /\ loaded.df = NoTable)

\* a load that ran on a wide table
C3_Witness == loaded.status = "error" /\ Wide(raw) /\ Len(raw.fields[1]) > 0

\* C4: every row of the returned table has a Country that is not empty, a four-digit
\* integer Year, a numeric Value that is 0 where the source field was not a number, and
\* Date = January 1 of Year.
C4_RowInvariant ==
    loaded.status = "ok" =>
        \A i \in 1..NRows(loaded.df) :
            /\ Col(loaded.df, "Country").v[i].k = "str"
            /\ strip(Col(loaded.df, "Country").v[i].s) # ""
            /\ Col(loaded.df, "Year").v[i].k = "num"
            /\ Col(loaded.df, "Year").v[i].n % 10 = 0
            /\ Col(loaded.df, "Year").v[i].n \div 10 \in 1000..9999
            /\ Col(loaded.df, "Value").v[i].k = "num"
            /\ Col(loaded.df, "Date").v[i] =
                   Timestamp(Col(loaded.df, "Year").v[i].n \div 10, 1, 1)

\* C5: a long-format file loads into the same Country/Year/Value/Date columns under
\* every accepted spelling of its three headers.
C5_HeaderNamingIrrelevant ==
    variant.status # "none" => variant = Projected(loaded)

\* a file loaded successfully, with rows, under its own and under another spelling
C5_Witness ==
    /\ variant.status = "ok"
    /\ loaded.status = "ok"
    /\ Len(variant.cols["Country"].v) > 0

\* C8: the normalization steps applied to a table they returned give the same table
\* (and the same country and year lists) back.
C8_Idempotent ==
    again.status # "none" => again = loaded

\* a returned table with rows, normalized again, from a file that lost a row in the load
C8_Witness ==
    /\ again.status = "ok"
    /\ NRows(again.df) > 0
    /\ NRows(loaded.df) < Len(raw.fields[1])

-----------------------------------------------------------------------------
(* The other two loaders and the files they read *)

\* covid.csv (COVID_LOCAL_PATH): cumulative confirmed cases per country and day
CovidCsv ==
    [header |-> <<"Country", "Date", "Confirmed">>,
     fields |-> << <<"Chile", "Chile", "United States">>,
                   <<"2020-03-01", "2020-03-02", "2021-01-05">>,
                   <<"5", "8", "3">> >>]

\* the FluNet export (FLU_URL): weekly positives; ISO week 1 of 2020 starts 2019-12-30
FluCsv ==
    [header |-> <<"COUNTRY_AREA_TERRITORY", "ISO_WEEKSTARTDATE", "ISO_YEAR", "INF_ALL">>,
     fields |-> << <<"UK", "United Kingdom", "United Kingdom">>,
                   <<"2019-12-30", "2020-01-06", "2021-01-04">>,
                   <<"2020", "2020", "2021">>,
                   <<"4", "6", "">> >>]

\* the diabetes files the dashboard is opened on: a long one and a wide one
DiabetesCsvs ==
    {[header |-> <<"Entity", "Time", "Prevalence">>,
      fields |-> << <<"Chile", "Chile", "Peru">>, <<"2019", "2019", "2020">>,
                    <<"9.5", "7.5", "6">> >>],
     [header |-> <<"Country", "2019", "2020">>,
      fields |-> << <<"Chile", "Peru">>, <<"9.5", "7">>, <<"10", "8">> >>]}

StrsOf(ser) == {c.s : c \in Uniques(ser)}

load_covid_data(csv) ==
    LET df0 == read_csv(csv)
        df == Assign(df0, "Date", to_datetime_series(Col(df0, "Date")))
    IN  [status |-> "ok", df |-> df,
         countries |-> SortedStrs(StrsOf(Col(df, "Country"))),
         years |-> SortedNums({YearOf(c) : c \in Uniques(Col(df, "Date"))})]

\* lines 43-50
FluRename(c) ==
    IF c = "COUNTRY_AREA_TERRITORY" THEN "Country"
    ELSE IF c = "ISO_WEEKSTARTDATE" THEN "Date"
    ELSE IF c = "ISO_YEAR" THEN "Year"
    ELSE IF c = "INF_ALL" THEN "Cases"
    ELSE IF c = "INF_A" THEN "Influenza_A"
    ELSE IF c = "INF_B" THEN "Influenza_B"
    ELSE c

load_flu_data(csv) ==
    LET df0 == read_csv(csv)
        d1 == [df0 EXCEPT !.columns = [j \in 1..Len(df0.columns) |-> FluRename(df0.columns[j])]]
        d2 == Assign(d1, "Date", to_datetime_series(Col(d1, "Date")))
        d3 == Assign(d2, "Cases", fillna0(to_numeric(Col(d2, "Cases"))))
        df == dropna(d3, {"Date", "Country"})
    IN  [status |-> "ok", df |-> df,
         countries |-> SortedStrs(StrsOf(Col(df, "Country"))),
         years |-> SortedNums({c.n \div 10 : c \in Uniques(Col(df, "Year"))})]

-----------------------------------------------------------------------------
(* Sidebar *)

Diseases == {"COVID-19", "Influenza (FluNet)", "Diabetes (Worldwide)"}

shortname_map ==
    ("UAE" :> "United Arab Emirates") @@ ("KSA" :> "Saudi Arabia") @@
    ("SAUDI" :> "Saudi Arabia") @@ ("UK" :> "United Kingdom") @@
    ("US" :> "United States") @@ ("USA" :> "United States")

Range(q) == {q[i] : i \in 1..Len(q)}

\* lines 152-159 for one part p: the countries appended to processed_countries
MatchPart(p, all_countries) ==
    LET up == RemoveChar(RemoveChar(upper(p), " "), ".")
        mapped == IF up \in DOMAIN shortname_map THEN shortname_map[up] ELSE p
        IsMatch(c) == lower(c) = lower(p)
        matches == SelectSeq(all_countries, IsMatch)
    IN  IF mapped \in Range(all_countries) THEN {mapped}
        ELSE IF matches # <<>> THEN {matches[1]}
        ELSE {}

\* line 150
Parts(text) ==
    LET pieces == split(text, ",")
        NotBlank(x) == strip(x) # ""
        kept == SelectSeq(pieces, NotBlank)
    IN  [i \in 1..Len(kept) |-> title(strip(kept[i]))]

\* lines 145-160; the order list(set(...)) leaves is not modelled: a set
processed_countries(text, all_countries) ==
    IF strip(text) = "" THEN {}
    ELSE IF strip(lower(text)) = "all" THEN Range(all_countries)
    ELSE UNION {MatchPart(p, all_countries) : p \in Range(Parts(text))}

\* line 170
year_options(available_years) ==
    <<"All Years">> \o [i \in 1..Len(available_years) |-> NatToStr(available_years[i])]

-----------------------------------------------------------------------------
(* Main: the Analyze pass *)

main_metric(d) ==
    IF d = "COVID-19" THEN "Confirmed" ELSE IF d = "Influenza (FluNet)" THEN "Cases" ELSE "Value"

\* lines 186-190: the rows of df_source kept by the country and the year filter
Filtered(src, valid_countries, year) ==
    {i \in 1..NRows(src) :
        /\ Col(src, "Country").v[i].s \in valid_countries
        /\ (year = "All Years" \/ YearOf(Col(src, "Date").v[i]) = StrToNat(year, 0))}

RECURSIVE SumOver(_, _)
SumOver(S, ser) ==
    IF S = {} THEN 0
    ELSE LET i == CHOOSE x \in S : TRUE IN ser.v[i].n + SumOver(S \ {i}, ser)

\* a figure of a chart: the exact quotient n / d of tenths, or NaN
Figure(n, d) == [k |-> "num", n |-> n, d |-> d]
NaNFigure == [k |-> "nan", n |-> 0, d |-> 1]

\* lines 229/231 and 250/252: groupby(year)[main_metric].mean() or .sum() of one group
Aggregate(d, group, metric) ==
    IF d = "Diabetes (Worldwide)"
    THEN Figure(SumOver(group, metric), Cardinality(group))
    ELSE Figure(SumOver(group, metric), 1)

\* the rows of one (country, year) group
Group(rows, country, date, c, y) ==
    {i \in rows : country.v[i].s = c /\ YearOf(date.v[i]) = y}

\* line 216
YearsIn(rows, date) == {YearOf(date.v[i]) : i \in rows}

\* lines 229/231: one country's groupby(...).mean() or .sum(), reindex(years, fill_value=0)
Yearly(d, valid_countries, rows, country, date, metric) ==
    [c \in valid_countries |-> [y \in YearsIn(rows, date) |->
        IF Group(rows, country, date, c, y) = {} THEN Figure(0, 1)
        ELSE Aggregate(d, Group(rows, country, date, c, y), metric)]]

\* lines 246-254: pd.DataFrame(comparison_data) holds NaN where a country's series has
\* no entry for a year of another's; reindex(years, fill_value=0) fills new labels only
Comparison(d, valid_countries, rows, country, date, metric) ==
    [c \in valid_countries |-> [y \in YearsIn(rows, date) |->
        IF \A c2 \in valid_countries : Group(rows, country, date, c2, y) = {}
        THEN Figure(0, 1)
        ELSE IF Group(rows, country, date, c, y) = {} THEN NaNFigure
        ELSE Aggregate(d, Group(rows, country, date, c, y), metric)]]

\* lines 282-284: the countries with at least one row in the filtered view
Present(valid_countries, rows, country) ==
    {c \in valid_countries : \E i \in rows : country.v[i].s = c}

\* line 285: sort_values("Date") leaves rows of equal Date in no defined order, so
\* iloc[-1] is any row of the country with its greatest Date
Latest(rows, country, date, c) ==
    {i \in rows : /\ country.v[i].s = c
                  /\ \A j \in rows : country.v[j].s = c => date.v[j].n <= date.v[i].n}

\* lines 286-300
SummaryRow(d, country, date, metric, i) ==
    [Country |-> country.v[i].s, LatestDate |-> date.v[i],
     Total |-> IF d = "Diabetes (Worldwide)" THEN metric.v[i].n
               ELSE (metric.v[i].n \div 10) * 10]

\* the summary lists lines 281-300 can build
Summaries(d, present, rows, country, date, metric) ==
    {{SummaryRow(d, country, date, metric, pick[c]) : c \in present} :
        pick \in {f \in [present -> rows] :
                    \A c \in present : f[c] \in Latest(rows, country, date, c)}}

\* lines 216-310 on the filtered rows; outcome "raised" is the KeyError of line 302,
\* pd.DataFrame([]).set_index("Country"). The rolling-average chart of lines 262-275
\* only reads the filtered rows and is not part of the result.
Rendering(d, valid_countries, rows, country, date, metric) ==
    {[outcome |-> IF Present(valid_countries, rows, country) = {} THEN "raised" ELSE "done",
      years |-> YearsIn(rows, date),
      yearly |-> Yearly(d, valid_countries, rows, country, date, metric),
      comparison |-> Comparison(d, valid_countries, rows, country, date, metric),
      summary |-> sm] :
        sm \in Summaries(d, Present(valid_countries, rows, country), rows, country, date, metric)}

\* lines 183-312 for a non-empty selection: what the pass can render
AnalyzePasses(d, src, valid_countries, year) ==
    Rendering(d, valid_countries, Filtered(src, valid_countries, year),
              Col(src, "Country"), Col(src, "Date"),
              fillna0(to_numeric(Col(src, main_metric(d)))))

-----------------------------------------------------------------------------
(* The script: one run of PythonApplication3.py per user interaction *)

MaxEntries == 2     \* comma-separated entries of a typed country text

EntryPool == {"u s.a.", "uk", " CHILE"}

RECURSIVE Join(_)
Join(q) == IF Len(q) = 1 THEN q[1] ELSE q[1] \o "," \o Join(Tail(q))

\* the texts typed into the country input
Inputs ==
    {"", "all", " ALL "} \cup
    UNION {{Join(q) : q \in [1..n -> EntryPool]} : n \in 1..MaxEntries}

\* the sidebar was rendered by the last run: its widgets can be used
Rendered == run.outcome \in {"idle", "warning", "done", "raised"}

\* lines 127-138
Source(d, cv, fl, db) ==
    IF d = "COVID-19" THEN cv ELSE IF d = "Influenza (FluNet)" THEN fl ELSE db

\* lines 176-315: the main area
Main(d, text, clicked, loads, data, processed, sel, yr) ==
    /\ disease' = d
    /\ user_input' = text
    /\ selected_countries' = sel
    /\ selected_year' = yr
    /\ IF clicked /\ sel # {}
       THEN \E res \in AnalyzePasses(d, data.df, sel, yr) :
               run' = [analyze_button |-> clicked, loads |-> loads,
                       processed_input |-> (strip(text) # ""),
                       processed_countries |-> processed,
                       outcome |-> res.outcome, years |-> res.years,
                       yearly |-> res.yearly, comparison |-> res.comparison,
                       summary |-> res.summary]
       ELSE run' = [NoRun EXCEPT !.analyze_button = clicked,
                                 !.loads = loads,
                                 !.processed_input = (strip(text) # ""),
                                 !.processed_countries = processed,
                                 !.outcome = IF clicked THEN "warning" ELSE "idle"]

\* lines 163-171: a multiselect or selectbox whose options or default differ from the
\* last run's is a new widget and shows its default
Widgets(d, text, sel, yr, clicked, loads, data, old, processed) ==
    Main(d, text, clicked, loads, data, processed,
         IF ~Rendered \/ old.countries # data.countries \/ run.processed_countries # processed
         THEN processed ELSE sel,
         IF ~Rendered \/ year_options(old.years) # year_options(data.years)
         THEN "All Years" ELSE yr)

\* lines 123-160
Sidebar(d, text, sel, yr, clicked, loads, data, old) ==
    Widgets(d, text, sel, yr, clicked, loads, data, old,
            processed_countries(text, data.countries))

\* lines 113-115 done: st.stop or an exception in load_diabetes_data ends the run
AfterLoads(d, text, sel, yr, clicked, loads, cv, fl, db) ==
    /\ covid' = cv
    /\ flu' = fl
    /\ loaded' = db
    /\ UNCHANGED <<raw, again, variant>>
    /\ IF db.status # "ok"
       THEN /\ run' = [NoRun EXCEPT !.loads = loads,
                                    !.outcome = IF db.status = "error" THEN "stopped"
                                                ELSE "load_raised"]
            /\ UNCHANGED <<disease, user_input, selected_countries, selected_year>>
       ELSE Sidebar(d, text, sel, yr, clicked, loads,
                    Source(d, cv, fl, db), Source(disease, cv, fl, db))

\* One run of the script, lines 113-315, with the widgets holding d, text, sel and yr and
\* the button clicked or not. st.cache_data keeps what a loader returned; a loader that
\* stopped or raised is run again by the next run.
ScriptRun(d, text, sel, yr, clicked) ==
    AfterLoads(d, text, sel, yr, clicked,
               (IF covid.status = "none" THEN {"covid"} ELSE {}) \cup
               (IF flu.status = "none" THEN {"flu"} ELSE {}) \cup
               (IF loaded.status = "ok" THEN {} ELSE {"diabetes"}),
               IF covid.status = "none" THEN load_covid_data(CovidCsv) ELSE covid,
               IF flu.status = "none" THEN load_flu_data(FluCsv) ELSE flu,
               IF loaded.status = "ok" THEN loaded ELSE load_diabetes_data(raw))

\* the browser opens the page: the first run, every widget at its default
OpenPage ==
    /\ run.outcome = "none"
    /\ ScriptRun("COVID-19", "", {}, "All Years", FALSE)

\* the page is reloaded after a run that ended at the loaders
Reload ==
    /\ run.outcome \in {"stopped", "load_raised"}
    /\ ScriptRun(disease, user_input, selected_countries, selected_year, FALSE)

SelectDisease ==
    /\ Rendered
    /\ \E d \in Diseases \ {disease} :
          ScriptRun(d, user_input, selected_countries, selected_year, FALSE)

TypeCountries ==
    /\ Rendered
    /\ \E text \in Inputs \ {user_input} :
          ScriptRun(disease, text, selected_countries, selected_year, FALSE)

PickCountries ==
    /\ Rendered
    /\ \E sel \in (SUBSET Range(Source(disease, covid, flu, loaded).countries))
                      \ {selected_countries} :
          ScriptRun(disease, user_input, sel, selected_year, FALSE)

SelectYear ==
    /\ Rendered
    /\ \E yr \in Range(year_options(Source(disease, covid, flu, loaded).years))
                     \ {selected_year} :
          ScriptRun(disease, user_input, selected_countries, yr, FALSE)

ClickAnalyze ==
    /\ Rendered
    /\ ScriptRun(disease, user_input, selected_countries, selected_year, TRUE)

InitApp ==
    /\ raw \in DiabetesCsvs
    /\ loaded = NotRun
    /\ again = NotRun
    /\ variant = NoProjection
    /\ AppClosed

NextApp ==
    \/ OpenPage
    \/ Reload
    \/ SelectDisease
    \/ TypeCountries
    \/ PickCountries
    \/ SelectYear
    \/ ClickAnalyze

SpecApp == InitApp /\ [][NextApp]_vars

-----------------------------------------------------------------------------
(* Properties of the script *)

\* the dataset the sidebar of the last run offered
Offered == Source(disease, covid, flu, loaded)

\* an entry of the typed text with case, spaces and periods ignored
Squeezed(e) == RemoveChar(RemoveChar(upper(e), " "), ".")

\* C6: every comma-separated entry that equals a dataset country ignoring case selects
\* that country, every entry that equals an abbreviation ignoring case, spaces and
\* periods selects the abbreviated country when the dataset has it, and "all" in any
\* case selects every country of the dataset.
C6_CountryTextParsing ==
    Rendered =>
        /\ strip(lower(user_input)) = "all"
              => run.processed_countries = Range(Offered.countries)
        /\ strip(lower(user_input)) # "all" =>
              \A e \in Range(split(user_input, ",")) :
                  /\ \A c \in Range(Offered.countries) :
                        lower(strip(e)) = lower(c) => c \in run.processed_countries
                  /\ \A k \in DOMAIN shortname_map :
                        (Squeezed(e) = k /\ shortname_map[k] \in Range(Offered.countries))
                            => shortname_map[k] \in run.processed_countries

\* C7: a run in which Analyze was not clicked loads no dataset, processes no country
\* text, and filters and aggregates nothing.
C7_AnalyzeGatesAllComputation ==
    (run.outcome # "none" /\ ~run.analyze_button) =>
        /\ run.loads = {}
        /\ ~run.processed_input
        /\ run.outcome \notin {"done", "raised"}

\* the rows of the offered dataset of country c and year y that pass the year filter
GroupOf(c, y) ==
    {i \in 1..NRows(Offered.df) :
        /\ Col(Offered.df, "Country").v[i].s = c
        /\ YearOf(Col(Offered.df, "Date").v[i]) = y
        /\ selected_year \in {"All Years", NatToStr(y)}}

\* the sum, in tenths, of the metric over a set of rows of the offered dataset
RECURSIVE MetricSum(_)
MetricSum(S) ==
    IF S = {} THEN 0
    ELSE LET i == CHOOSE x \in S : TRUE
             cell == Col(Offered.df, main_metric(disease)).v[i]
         IN  (IF cell.k = "num" THEN cell.n ELSE 0) + MetricSum(S \ {i})

\* the figure fig is the mean (Diabetes) or the sum (otherwise) of the group, 0 if empty
IsYearlyFigure(fig, c, y) ==
    /\ fig.k = "num"
    /\ IF GroupOf(c, y) = {} THEN fig.n = 0
       ELSE IF disease = "Diabetes (Worldwide)"
            THEN fig.n * Cardinality(GroupOf(c, y)) = MetricSum(GroupOf(c, y)) * fig.d
            ELSE fig.n = MetricSum(GroupOf(c, y)) * fig.d

\* C9: after an Analyze pass, for every selected country and every year of the filtered
\* view, the per-country chart and the comparison chart both show the mean (Diabetes)
\* or the sum (COVID-19, Influenza) of the group's rows, and 0 for a group without rows.
C9_YearlyAggregation ==
    run.outcome \in {"done", "raised"} =>
        \A c \in selected_countries : \A y \in run.years :
            /\ IsYearlyFigure(run.yearly[c][y], c, y)
            /\ IsYearlyFigure(run.comparison[c][y], c, y)

\* the selected countries with at least one row in the filtered view
WithRows ==
    {c \in selected_countries :
        \E i \in Filtered(Offered.df, selected_countries, selected_year) :
            Col(Offered.df, "Country").v[i].s = c}

\* C10: an Analyze pass over a non-empty selection completes and renders the summary,
\* one row per selected country with rows in the filtered view, whatever the year filter
\* leaves.
C10_AnalyzeNeverRaises ==
    (run.analyze_button /\ selected_countries # {}) =>
        /\ run.outcome = "done"
        /\ {r.Country : r \in run.summary} = WithRows
        /\ Cardinality(run.summary) = Cardinality(WithRows)

====
